---- MODULE Spec2Model ----
(***************************************************************************)
(* A model of RuneTrie (src/rune_trie.go): a trie with one edge per rune,  *)
(* string keys and interface{} values.                                     *)
(*                                                                         *)
(* A key is a Go string, i.e. a sequence of bytes; `range key` decodes it  *)
(* as UTF-8 and yields (byte offset, rune) pairs.  A node is identified    *)
(* by the sequence of runes on the edges leading to it from the root; the  *)
(* trie is a function from the set of existing nodes to their fields.      *)
(***************************************************************************)
EXTENDS Integers, Sequences, FiniteSets, TLC

\* ------------------------------------------------------------------ bounds
\* Longest key, in codepoints, handed to an operation.
MaxKeyLen == 2
\* Put is applied only while the trie keeps at most MaxNodes non-root nodes.
MaxNodes == 2

\* --------------------------------------------------------------- constants
\* Go's nil interface value: "no value"
Nil == 0
\* The non-nil values stored.  The code never looks into a value, it only
\* compares it with nil: two values tell a replaced value from a kept one.
Values == {1, 2}
\* Go's nil error
NoErr == 0
\* utf8.RuneError, what range yields for a byte that starts no valid encoding
RuneError == 65533
\* the codepoints keys are made of: 'a' (one byte) and U+00E9 (two bytes)
KeyRunes == {97, 233}

\* ------------------------------------------------------- UTF-8 (Go strings)
\* string(r): the UTF-8 encoding of a rune
EncodeRune(r) ==
    IF r < 128 THEN <<r>>
    ELSE IF r < 2048 THEN <<192 + (r \div 64), 128 + (r % 64)>>
    ELSE <<224 + (r \div 4096), 128 + ((r \div 64) % 64), 128 + (r % 64)>>

IsCont(b) == b >= 128 /\ b < 192

\* the rune starting at byte s[i] (1-based) and its width in bytes
DecodeRune(s, i) ==
    LET b0 == s[i] IN
    IF b0 < 128 THEN [r |-> b0, w |-> 1]
    ELSE IF b0 >= 194 /\ b0 < 224 /\ i + 1 <= Len(s) /\ IsCont(s[i + 1])
        THEN [r |-> (b0 - 192) * 64 + (s[i + 1] - 128), w |-> 2]
    ELSE IF b0 >= 224 /\ b0 < 240 /\ i + 2 <= Len(s)
            /\ IsCont(s[i + 1]) /\ IsCont(s[i + 2])
            /\ (b0 - 224) * 4096 + (s[i + 1] - 128) * 64 >= 2048
        THEN [r |-> (b0 - 224) * 4096 + (s[i + 1] - 128) * 64 + (s[i + 2] - 128),
              w |-> 3]
    ELSE [r |-> RuneError, w |-> 1]

\* `for i, r := range key`: the (byte offset, rune) pairs, offsets 0-based
RECURSIVE RangeFrom(_, _)
RangeFrom(s, i) ==
    IF i > Len(s) THEN <<>>
    ELSE LET d == DecodeRune(s, i)
         IN  <<[i |-> i - 1, r |-> d.r]>> \o RangeFrom(s, i + d.w)

RangeKey(s) == RangeFrom(s, 1)

\* the string made of the given codepoints
RECURSIVE EncodeRunes(_)
EncodeRunes(rs) ==
    IF rs = <<>> THEN <<>> ELSE EncodeRune(Head(rs)) \o EncodeRunes(Tail(rs))

\* the codepoints of a string
RunesOf(s) == [j \in 1 .. Len(RangeKey(s)) |-> RangeKey(s)[j].r]

\* ------------------------------------------------------------------- keys
RECURSIVE RuneSeqs(_)
RuneSeqs(n) ==
    IF n = 0 THEN {<<>>}
    ELSE RuneSeqs(n - 1)
         \cup {Append(p, r) : p \in {q \in RuneSeqs(n - 1) : Len(q) = n - 1},
                              r \in KeyRunes}

\* the keys handed to the operations: the strings of at most MaxKeyLen codepoints
Keys == {EncodeRunes(p) : p \in RuneSeqs(MaxKeyLen)}

\* ------------------------------------------------------------------ nodes
\* new(RuneTrie): no value, nil Children map
NewRuneTrie == [Value |-> Nil, hasMap |-> FALSE]

\* the runes r with node.Children[r] present
ChildRunes(t, node) ==
    {r \in KeyRunes \cup {RuneError} : Append(node, r) \in DOMAIN t}

\* len(trie.Children) == 0
isLeaf(t, node) == Cardinality(ChildRunes(t, node)) = 0

\* ------------------------------------------------------------------- Get
RECURSIVE GetLoop(_, _, _, _)
GetLoop(t, it, node, j) ==
    IF j > Len(it) THEN t[node].Value
    ELSE LET child == Append(node, it[j].r)
         IN  IF child \notin DOMAIN t THEN Nil
             ELSE GetLoop(t, it, child, j + 1)

Get(t, k) == GetLoop(t, RangeKey(k), <<>>, 1)

\* Get for a key of Keys, with the runes `range key` yields looked up in a
\* table instead of decoded at every call: GetOf(t, k) = Get(t, k)
KeyRange == [k \in Keys |-> RangeKey(k)]

GetOf(t, k) == GetLoop(t, KeyRange[k], <<>>, 1)

\* ------------------------------------------------------------------- Put
\* node.Children[r] = child, for a child that does not exist yet
AddChild(t, node, r) ==
    (Append(node, r) :> NewRuneTrie) @@ t

\* lines 40-42: allocate the Children map of a node that has none
MakeMap(t, node) ==
    IF t[node].hasMap THEN t ELSE [t EXCEPT ![node].hasMap = TRUE]

\* PutStore with the bug of writing only to a node without a value
PutStoreKeep(t, node, v) ==
    [trie |-> IF t[node].Value = Nil THEN [t EXCEPT ![node].Value = v] ELSE t,
     ret |-> (t[node].Value = Nil)]

\* PutStore with the bug of testing the value after it is overwritten
PutStoreAfter(t, node, v) ==
    [trie |-> [t EXCEPT ![node].Value = v], ret |-> (v = Nil)]

\* lines 48-51: isNewVal := node.Value == nil; node.Value = value
PutStore(t, node, v) ==
    [trie |-> [t EXCEPT ![node].Value = v], ret |-> (t[node].Value = Nil)]

\* lines 37-47: descend along the runes of the key, creating missing children
RECURSIVE PutLoop(_, _, _, _, _)
PutLoop(t, it, node, j, v) ==
    IF j > Len(it) THEN PutStore(t, node, v)
    ELSE LET r == it[j].r
             child == Append(node, r)
         IN  IF child \notin DOMAIN t
                 THEN PutLoop(AddChild(MakeMap(t, node), node, r), it, child, j + 1, v)
                 ELSE PutLoop(t, it, child, j + 1, v)

\* Put(key, value): the trie afterwards and the boolean returned
Put(t, k, v) == PutLoop(t, RangeKey(k), <<>>, 1, v)

\* ---------------------------------------------------------------- Delete
\* the zero nodeRune that make([]nodeRune, n) fills the slice with
ZeroNodeRune == [isNil |-> TRUE, node |-> <<>>, r |-> 0]

\* make([]nodeRune, len(key)): one entry per BYTE of the key, indexed from 0
MakePath(k) == [i \in 0 .. Len(k) - 1 |-> ZeroNodeRune]

\* lines 59-67: the descent; path[i] is written at the byte offset i of each
\* rune.  found = FALSE is the early `return false`.
RECURSIVE DeleteDescend(_, _, _, _, _)
DeleteDescend(t, it, path, node, j) ==
    IF j > Len(it) THEN [found |-> TRUE, path |-> path, node |-> node]
    ELSE LET i == it[j].i
             r == it[j].r
             path1 == [path EXCEPT ![i] = [isNil |-> FALSE, node |-> node, r |-> r]]
             child == Append(node, r)
         IN  IF child \notin DOMAIN t
                 THEN [found |-> FALSE, path |-> path1, node |-> node]
                 ELSE DeleteDescend(t, it, path1, child, j + 1)

IsPrefix(p, q) == Len(p) <= Len(q) /\ SubSeq(q, 1, Len(p)) = p

\* delete(parent.Children, r): the child and all below it leave the trie
\* (a no-op when the entry is absent or the map is nil)
RemoveChild(t, parent, r) ==
    [p \in {q \in DOMAIN t : ~IsPrefix(Append(parent, r), q)} |-> t[p]]

\* lines 74-87: for i := len(key)-1; i >= 0; i--.  parent.Children of a nil
\* parent is a nil pointer dereference: the call panics with the trie as it is.
RECURSIVE Prune(_, _, _)
\* Prune with the bug of going on past a childless parent that holds a value
PruneValued(t, path, i) ==
    IF i < 0 THEN [trie |-> t, panicked |-> FALSE]
    ELSE IF path[i].isNil THEN [trie |-> t, panicked |-> TRUE]
    ELSE LET parent == path[i].node
             t1 == RemoveChild(t, parent, path[i].r)
             t2 == [t1 EXCEPT ![parent].hasMap = FALSE]
         IN  IF ~isLeaf(t1, parent) THEN [trie |-> t1, panicked |-> FALSE]
             ELSE Prune(t2, path, i - 1)

Prune(t, path, i) ==
    IF i < 0 THEN [trie |-> t, panicked |-> FALSE]
    ELSE IF path[i].isNil THEN [trie |-> t, panicked |-> TRUE]
    ELSE LET parent == path[i].node
             t1 == RemoveChild(t, parent, path[i].r)
             t2 == [t1 EXCEPT ![parent].hasMap = FALSE]
         IN  IF ~isLeaf(t1, parent) THEN [trie |-> t1, panicked |-> FALSE]
             ELSE IF t2[parent].Value # Nil THEN [trie |-> t2, panicked |-> FALSE]
             ELSE Prune(t2, path, i - 1)

\* DeleteNode with the bug of clearing the value of a leaf only
DeleteNodeKeep(t, k, path, node) ==
    IF isLeaf(t, node)
        THEN LET p == Prune([t EXCEPT ![node].Value = Nil], path, Len(k) - 1)
             IN  [trie |-> p.trie, ret |-> ~p.panicked, panicked |-> p.panicked]
        ELSE [trie |-> t, ret |-> TRUE, panicked |-> FALSE]

\* lines 68-89: node.Value = nil, then prune when the node is a leaf
DeleteNode(t, k, path, node) ==
    LET t1 == [t EXCEPT ![node].Value = Nil]
    IN  IF isLeaf(t1, node)
            THEN LET p == Prune(t1, path, Len(k) - 1)
                 IN  [trie |-> p.trie, ret |-> ~p.panicked, panicked |-> p.panicked]
            ELSE [trie |-> t1, ret |-> TRUE, panicked |-> FALSE]

\* Delete with the bug of clearing the value of the last node reached before
\* it is known whether the whole key resolves
DeleteEager(t, k) ==
    LET d == DeleteDescend(t, RangeKey(k), MakePath(k), <<>>, 1)
    IN  IF ~d.found
            THEN [trie |-> [t EXCEPT ![d.node].Value = Nil], ret |-> FALSE,
                  panicked |-> FALSE]
            ELSE DeleteNode(t, k, d.path, d.node)

\* Delete(key): the trie afterwards, the boolean returned, and whether the
\* call panicked instead of returning (ret is then meaningless)
Delete(t, k) ==
    LET d == DeleteDescend(t, RangeKey(k), MakePath(k), <<>>, 1)
    IN  IF ~d.found THEN [trie |-> t, ret |-> FALSE, panicked |-> FALSE]
        ELSE DeleteNode(t, k, d.path, d.node)

\* ------------------------------------------------------ Walk and WalkPath
\* A visitor (WalkFunc) is modelled by the call it fails on (failAt, 0 for a
\* visitor that never fails) and the error it then returns.  A traversal
\* carries the calls made so far and the error of the last one; `node` in a
\* visit is the node the call was made for (it is not part of the call).
NoVisitor == [failAt |-> 0, e |-> NoErr]

\* the visitor that never fails, one that fails on its first call with error
\* 1 and one that fails on its second call with error 2
Visitors == {NoVisitor, [failAt |-> 1, e |-> 1], [failAt |-> 2, e |-> 2]}

NoVisits == [visits |-> <<>>, err |-> NoErr]

\* walker(key, value)
Call(st, vis, k, v, node) ==
    [visits |-> Append(st.visits, [key |-> k, value |-> v, node |-> node]),
     err |-> IF Len(st.visits) + 1 = vis.failAt THEN vis.e ELSE NoErr]

\* lines 105-109 and 115-119: call the walker when the node holds a value
VisitNode(t, st, vis, k, node) ==
    IF t[node].Value # Nil THEN Call(st, vis, k, t[node].Value, node) ELSE st

\* key[0:i+1] of line 116: the first i+1 BYTES of the key
KeySlice(k, i) == SubSeq(k, 1, i + 1)

\* lines 111-121
RECURSIVE WalkPathLoop(_, _, _, _, _, _, _)
WalkPathLoop(t, k, it, node, j, st, vis) ==
    IF j > Len(it) THEN [visits |-> st.visits, err |-> NoErr]
    ELSE LET child == Append(node, it[j].r)
         IN  IF child \notin DOMAIN t THEN [visits |-> st.visits, err |-> NoErr]
             ELSE LET st1 == VisitNode(t, st, vis, KeySlice(k, it[j].i), child)
                  IN  IF st1.err # NoErr THEN st1
                      ELSE WalkPathLoop(t, k, it, child, j + 1, st1, vis)

\* WalkPath with the bug of leaving out the root
WalkPathNoRoot(t, k, vis) ==
    WalkPathLoop(t, k, RangeKey(k), <<>>, 1, NoVisits, vis)

\* WalkPath(key, walker): the calls made and the error returned
WalkPath(t, k, vis) ==
    LET st1 == VisitNode(t, NoVisits, vis, <<>>, <<>>)
    IN  IF st1.err # NoErr THEN st1
        ELSE WalkPathLoop(t, k, RangeKey(k), <<>>, 1, st1, vis)

\* ChildKey with the bug of passing the rune instead of the key so far
ChildKeyRune(k, r) == EncodeRune(r)

\* key+string(r) of line 137
ChildKey(k, r) == k \o EncodeRune(r)

\* lines 130-142.  `range trie.Children` iterates a Go map, in an order the
\* language leaves open: walk yields the SET of outcomes, one for each order
\* in which the children not yet visited (rest) may come.
RECURSIVE walk(_, _, _, _, _)
RECURSIVE walkChildren(_, _, _, _, _, _)
\* walk with the bug of calling the walker after the children were walked
walkPostOrder(t, node, k, st, vis) ==
    {IF st1.err # NoErr THEN st1 ELSE VisitNode(t, st1, vis, k, node) :
        st1 \in walkChildren(t, node, k, ChildRunes(t, node), st, vis)}

\* walk with the bug of not looking at the error the walker returns
walkIgnoreErr(t, node, k, st, vis) ==
    walkChildren(t, node, k, ChildRunes(t, node), VisitNode(t, st, vis, k, node), vis)

walk(t, node, k, st, vis) ==
    LET st1 == VisitNode(t, st, vis, k, node)
    IN  IF st1.err # NoErr THEN {st1}
        ELSE walkChildren(t, node, k, ChildRunes(t, node), st1, vis)

walkChildren(t, node, k, rest, st, vis) ==
    IF rest = {} THEN {[visits |-> st.visits, err |-> NoErr]}
    ELSE UNION {
           UNION {
             IF st1.err # NoErr THEN {st1}
             ELSE walkChildren(t, node, k, rest \ {r}, st1, vis)
             : st1 \in walk(t, Append(node, r), ChildKey(k, r), st, vis)}
           : r \in rest}

\* Walk(walker): the possible outcomes
Walk(t, vis) == walk(t, <<>>, <<>>, NoVisits, vis)

\* ------------------------------------------------------------ the program
VARIABLES
    trie,      \* the nodes reachable from the root and their fields
    op,        \* the last operation called ("New" after construction)
    key,       \* its key argument
    val,       \* its value argument (Put)
    visitor,   \* its walker argument (Walk, WalkPath)
    retBool,   \* the boolean it returned (Put, Delete)
    retVal,    \* the value it returned (Get)
    visits,    \* the walker calls it made (Walk, WalkPath)
    err,       \* the error it returned (Walk, WalkPath)
    panicked   \* TRUE when it panicked instead of returning

vars == <<trie, op, key, val, visitor, retBool, retVal, visits, err, panicked>>

\* NewRuneTrie(): a root without value and without children
Init ==
    /\ trie = [p \in {<<>>} |-> NewRuneTrie]
    /\ op = "New"
    /\ key = <<>>
    /\ val = Nil
    /\ visitor = NoVisitor
    /\ retBool = FALSE
    /\ retVal = Nil
    /\ visits = <<>>
    /\ err = NoErr
    /\ panicked = FALSE

\* GetAct with the bug of creating the nodes of the key while descending
GetActCreate(k) ==
    /\ op' = "Get" /\ key' = k
    /\ retVal' = Get(trie, k)
    /\ trie' = Put(trie, k, Get(trie, k)).trie
    /\ val' = Nil /\ visitor' = NoVisitor /\ retBool' = FALSE
    /\ visits' = <<>> /\ err' = NoErr
    /\ panicked' = FALSE

\* A panic unwinds the call; the trie stays as the call left it, and a caller
\* that recovers goes on using it.
GetAct(k) ==
    /\ op' = "Get" /\ key' = k
    /\ retVal' = Get(trie, k)
    /\ val' = Nil /\ visitor' = NoVisitor /\ retBool' = FALSE
    /\ visits' = <<>> /\ err' = NoErr
    /\ panicked' = FALSE
    /\ UNCHANGED trie

PutAct(k, v) ==
    LET out == Put(trie, k, v)
    IN  /\ Cardinality(DOMAIN out.trie) <= MaxNodes + 1
        /\ op' = "Put" /\ key' = k /\ val' = v
        /\ trie' = out.trie
        /\ retBool' = out.ret
        /\ visitor' = NoVisitor /\ retVal' = Nil
        /\ visits' = <<>> /\ err' = NoErr
        /\ panicked' = FALSE

DeleteAct(k) ==
    LET out == Delete(trie, k)
    IN  /\ op' = "Delete" /\ key' = k
        /\ trie' = out.trie
        /\ retBool' = out.ret
        /\ panicked' = out.panicked
        /\ val' = Nil /\ visitor' = NoVisitor /\ retVal' = Nil
        /\ visits' = <<>> /\ err' = NoErr

WalkAct(vis) ==
    /\ op' = "Walk" /\ visitor' = vis
    /\ \E out \in Walk(trie, vis) :
          /\ visits' = out.visits
          /\ err' = out.err
    /\ key' = <<>> /\ val' = Nil /\ retBool' = FALSE /\ retVal' = Nil
    /\ panicked' = FALSE
    /\ UNCHANGED trie

WalkPathAct(k, vis) ==
    LET out == WalkPath(trie, k, vis)
    IN  /\ op' = "WalkPath" /\ key' = k /\ visitor' = vis
        /\ visits' = out.visits
        /\ err' = out.err
        /\ val' = Nil /\ retBool' = FALSE /\ retVal' = Nil
        /\ panicked' = FALSE
        /\ UNCHANGED trie

\* the key-value operations
Next ==
    \/ \E k \in Keys : GetAct(k)
    \/ \E k \in Keys, v \in Values \cup {Nil} : PutAct(k, v)
    \/ \E k \in Keys : DeleteAct(k)

Spec == Init /\ [][Next]_vars

\* the traversals with a visitor that never fails, over the tries Put and
\* Delete build
NextWalk ==
    \/ \E k \in Keys, v \in Values \cup {Nil} : PutAct(k, v)
    \/ \E k \in Keys : DeleteAct(k)
    \/ WalkAct(NoVisitor)
    \/ \E k \in Keys : WalkPathAct(k, NoVisitor)

SpecWalk == Init /\ [][NextWalk]_vars

\* the traversals with visitors that fail.  Put alone builds every trie Put
\* and Delete build (Put of nil clears a value), so Delete is left out here.
NextAbort ==
    \/ \E k \in Keys, v \in Values \cup {Nil} : PutAct(k, v)
    \/ \E vis \in Visitors : WalkAct(vis)
    \/ \E k \in Keys, vis \in Visitors : WalkPathAct(k, vis)

SpecAbort == Init /\ [][NextAbort]_vars

\* the three reads, the traversals with the visitor that never fails and the
\* one that fails on its second call
NextRead ==
    \/ \E k \in Keys, v \in Values \cup {Nil} : PutAct(k, v)
    \/ \E k \in Keys : GetAct(k)
    \/ \E vis \in {v \in Visitors : v.failAt # 1} : WalkAct(vis)
    \/ \E k \in Keys, vis \in {v \in Visitors : v.failAt # 1} : WalkPathAct(k, vis)

SpecRead == Init /\ [][NextRead]_vars

\* the two operations that write
NextMap ==
    \/ \E k \in Keys, v \in Values \cup {Nil} : PutAct(k, v)
    \/ \E k \in Keys : DeleteAct(k)

SpecMap == Init /\ [][NextMap]_vars

\* ============================================================== properties
\* the node a key leads to exists (no edge is missing on its path)
Reachable(t, k) == RunesOf(k) \in DOMAIN t

\* the key holds a two-byte codepoint
MultiByte(k) == \E j \in 1 .. Len(k) : k[j] >= 128

\* C1: after Put(k, v), Get(k) returns exactly v (v may be nil).
C1_PutThenGet == op = "Put" => Get(trie, key) = val

\* a Put that replaced a value under a two-codepoint key with a two-byte rune
C1_Witness ==
    /\ op = "Put" /\ val = 2 /\ ~retBool
    /\ Len(RunesOf(key)) = 2 /\ MultiByte(key)

\* I1: no node other than the root is both childless and valueless
I1(t) == \A p \in DOMAIN t : p # <<>> => ~(isLeaf(t, p) /\ t[p].Value = Nil)

\* C2: I1 holds after every public operation returns, whatever keys and
\* values (nil included) Put and Delete were called with.
C2_I1AfterReturn == ~panicked => I1(trie)

\* C3: Get, Put and Delete on any key complete and return; none panics.
C3_NoPanic == ~panicked

\* C4: Put(k, v) returns true iff Get(k) was nil just before the call; so a
\* Put of a non-nil value right after a Put to the same key returns false,
\* and a Put right after Delete of the same key returns true.
C4_PutReturnsIsNew ==
    [][op' = "Put" =>
          /\ retBool' = (Get(trie, key') = Nil)
          /\ (op = "Put" /\ key = key' /\ val # Nil) => ~retBool'
          /\ (op = "Delete" /\ key = key') => retBool'
      ]_vars

\* a Put of a non-nil value that found a value under a non-empty key
C4_Witness ==
    /\ op = "Put" /\ val \in Values
    /\ ~retBool /\ key # <<>>

\* C5: after Delete(k), whatever it returned, Get(k) returns nil.
C5_DeleteThenGet == op = "Delete" => Get(trie, key) = Nil

\* a Delete that returned true for a node that stays in the trie, having
\* children
C5_Witness ==
    /\ op = "Delete" /\ retBool /\ ~panicked
    /\ key # <<>> /\ Reachable(trie, key) /\ ~isLeaf(trie, RunesOf(key))

\* C6: Delete(k) returns false iff an edge of k is missing, and returns true
\* whenever the node of k is reachable.
C6_DeleteReturnsReachable ==
    [][op' = "Delete" => (~panicked' /\ retBool' = Reachable(trie, key'))]_vars

\* C7: when Delete(k) returns false the trie is unchanged.
C7_DeleteFalseNoChange ==
    [][(op' = "Delete" /\ ~panicked' /\ ~retBool') => trie' = trie]_vars

\* a Delete that returned false after following at least one edge to a node
\* holding a value
C7_Witness ==
    /\ op = "Delete" /\ ~retBool /\ ~panicked
    /\ Len(RunesOf(key)) = 2
    /\ <<RunesOf(key)[1]>> \in DOMAIN trie
    /\ trie[<<RunesOf(key)[1]>>].Value # Nil

\* C8: Walk with a visitor that never fails calls it exactly once for every
\* key k with Get(k) # nil, with (k, Get(k)), for no other key, and returns nil.
C8_WalkVisitsEntries ==
    (op = "Walk" /\ visitor.failAt = 0) =>
        /\ err = NoErr
        /\ \A i \in 1 .. Len(visits) :
              /\ visits[i].value # Nil
              /\ Get(trie, visits[i].key) = visits[i].value
        /\ \A i, j \in 1 .. Len(visits) :
              i # j => visits[i].key # visits[j].key
        /\ \A k \in Keys :
              Get(trie, k) # Nil => \E i \in 1 .. Len(visits) : visits[i].key = k

\* a Walk over three entries, one of them two codepoints deep
C8_Witness ==
    /\ op = "Walk" /\ visitor.failAt = 0 /\ Len(visits) = 3
    /\ \E i \in 1 .. 3 : Len(visits[i].node) = 2 /\ MultiByte(visits[i].key)

\* the nodes on the path of key that exist and hold a value, root first
PathNodes(t, k) ==
    LET rs == RunesOf(k)
        pre == [j \in 1 .. Len(rs) + 1 |-> SubSeq(rs, 1, j - 1)]
        Holds(p) == p \in DOMAIN t /\ t[p].Value # Nil
    IN  SelectSeq(pre, Holds)

\* C9: WalkPath(key) with a visitor that never fails visits exactly the
\* value-holding nodes on the path of key that are reachable, root first and
\* in strictly increasing depth, each once, and returns nil, also when an
\* edge is missing.
C9_WalkPathVisitsPath ==
    (op = "WalkPath" /\ visitor.failAt = 0) =>
        /\ err = NoErr
        /\ [i \in 1 .. Len(visits) |-> visits[i].node] = PathNodes(trie, key)
        /\ \A i \in 1 .. Len(visits) : visits[i].value = trie[visits[i].node].Value
        /\ \A i \in 1 .. Len(visits) - 1 :
              Len(visits[i].node) < Len(visits[i + 1].node)

\* a WalkPath that visited the root and a child and then met a missing edge
C9_Witness ==
    /\ op = "WalkPath" /\ visitor.failAt = 0
    /\ Len(visits) = 2 /\ visits[1].node = <<>>
    /\ ~Reachable(trie, key)

\* C10: every call WalkPath makes gets the prefix of key consumed so far, in
\* whole codepoints, so that Get of it is the value passed.
C10_WalkPathKeyIsPrefix ==
    op = "WalkPath" =>
        \A i \in 1 .. Len(visits) :
            /\ visits[i].key = EncodeRunes(visits[i].node)
            /\ Get(trie, visits[i].key) = visits[i].value

\* the nodes holding a value
Stored(t) == {p \in DOMAIN t : t[p].Value # Nil}

\* the number of calls a traversal makes to a visitor that never fails
TotalVisits ==
    IF op = "Walk" THEN Cardinality(Stored(trie)) ELSE Len(PathNodes(trie, key))

\* C11: when the visitor fails on its n-th call, Walk and WalkPath make
\* exactly n calls and return the visitor's error; when it does not fail (it
\* never does, or the traversal ends before the n-th call) they make every
\* call and return nil.
C11_AbortOnError ==
    op \in {"Walk", "WalkPath"} =>
        IF visitor.failAt \in 1 .. TotalVisits
            THEN Len(visits) = visitor.failAt /\ err = visitor.e
            ELSE Len(visits) = TotalVisits /\ err = NoErr

\* a Walk over three entries aborted by the error of the second call
C11_Witness ==
    /\ op = "Walk" /\ visitor.failAt = 2 /\ Cardinality(Stored(trie)) = 3
    /\ Len(visits) = 2 /\ err = 2

\* C12: Get, Walk and WalkPath leave the trie as it was: the same nodes,
\* edges and values.
C12_ReadsArePure ==
    [][op' \in {"Get", "Walk", "WalkPath"} => trie' = trie]_vars

\* a WalkPath aborted by the error of its second call, on a key whose last
\* edge is missing
C12_Witness ==
    /\ op = "WalkPath" /\ err = 2 /\ Len(visits) = 2
    /\ ~Reachable(trie, key)

\* the nodes a Delete that reaches the childless node n is to unlink: n
\* itself and, from its parent upward, the ancestors that hold no value and
\* have no other child, up to the first that does; never the root
Unlinked(t, n) ==
    IF n = <<>> THEN {}
    ELSE {n} \cup
         {SubSeq(n, 1, j) : j \in
            {j \in 1 .. Len(n) - 1 :
                \A m \in j .. Len(n) - 1 :
                    /\ t[SubSeq(n, 1, m)].Value = Nil
                    /\ Cardinality(ChildRunes(t, SubSeq(n, 1, m))) = 1}}

\* C13: a Delete(k) that reaches a childless node unlinks it and exactly the
\* ancestors left childless and valueless, from the parent upward to the
\* first that has another child or a value, never the root; every other key
\* that held a value keeps it.
C13_DeletePrunes ==
    [][(op' = "Delete" /\ Reachable(trie, key') /\ isLeaf(trie, RunesOf(key'))) =>
          /\ ~panicked'
          /\ <<>> \in DOMAIN trie'
          /\ DOMAIN trie' = DOMAIN trie \ Unlinked(trie, RunesOf(key'))
          /\ \A k \in Keys \ {key'} :
                Get(trie, k) # Nil => Get(trie', k) = Get(trie, k)
      ]_vars

\* C14: Walk is pre-order: of two visited keys of which one is a proper
\* prefix of the other, the prefix is visited first; the root, when it holds
\* a value, is the first visit.
C14_WalkPreOrder ==
    op = "Walk" =>
        /\ \A i, j \in 1 .. Len(visits) :
              (i # j /\ IsPrefix(visits[i].key, visits[j].key)) => i < j
        /\ (trie[<<>>].Value # Nil /\ visitor.failAt = 0) =>
              (Len(visits) >= 1 /\ visits[1].key = <<>>)

\* a Walk over the root, a child and a grandchild, all holding values
C14_Witness ==
    /\ op = "Walk" /\ Len(visits) = 3
    /\ visits[1].key = <<>>
    /\ visits[2].key # <<>>
    /\ visits[2].key # visits[3].key
    /\ IsPrefix(visits[2].key, visits[3].key)

\* C15: the trie refines the map k |-> Get(k): a Put(k, v) step sets the
\* entry of k to v and a Delete(k) step sets it to nil, and neither changes
\* the entry of any other key, prefixes and extensions of k included.
C15_RefinesMap ==
    [][/\ op' = "Put" =>
            \A k \in Keys :
                GetOf(trie', k) = IF k = key' THEN val' ELSE GetOf(trie, k)
       /\ op' = "Delete" =>
            \A k \in Keys :
                GetOf(trie', k) = IF k = key' THEN Nil ELSE GetOf(trie, k)
      ]_vars

\* a Delete that unlinked the node of a two-codepoint key and stopped at its
\* parent, which holds a value
C15_Witness ==
    /\ op = "Delete" /\ retBool /\ ~panicked
    /\ Len(RunesOf(key)) = 2 /\ ~Reachable(trie, key)
    /\ <<RunesOf(key)[1]>> \in DOMAIN trie
    /\ trie[<<RunesOf(key)[1]>>].Value # Nil

\* the same tree, an empty Children map counted equal to a nil one
SameTree(t1, t2) ==
    /\ DOMAIN t1 = DOMAIN t2
    /\ \A p \in DOMAIN t1 : t1[p].Value = t2[p].Value

\* C16: in a trie satisfying I1 where k holds no value, Put(k, v) with a
\* non-nil v followed by Delete(k) returns and restores exactly the tree
\* there was before the Put.
C16_PutDeleteRoundTrip ==
    [][(op' = "Put" /\ val' \in Values /\ I1(trie) /\ Get(trie, key') = Nil) =>
          LET d == Delete(trie', key')
          IN  ~d.panicked /\ d.ret /\ SameTree(d.trie, trie)
      ]_vars

====
